---- MODULE Spec2Model ----
(***************************************************************************)
(* State-machine model of oauth2cli/aio/oauth2.py: the token pipeline      *)
(* (_obtain_token), the simple grants, the device authorization initiator  *)
(* and the device-flow poller.  One client, one flow descriptor, one call  *)
(* in progress at a time.  A coroutine runs atomically between two awaits, *)
(* so every action is the code from one suspension point to the next.      *)
(* Time is the value of time.time() in whole seconds; it passes only while *)
(* the coroutine is suspended (inside the HTTP round trip or the sleeper)  *)
(* or while no call is in progress.                                        *)
(***************************************************************************)
EXTENDS Integers, FiniteSets, Sequences, TLC

VARIABLES
    flow,        \* the device flow descriptor (a dict), Empty before initiate_device_flow
    now,         \* time.time()
    pc,          \* where the current coroutine is suspended, or how it ended
    call,        \* the call in progress: its kind and its sleeper / exit_condition arguments
    result,      \* local `result` of obtain_token_by_device_flow
    retval,      \* the value the finished call returned
    raisedBy,    \* the exception the finished call raised
    i,           \* loop variable of `for i in range(...)`
    n,           \* the range bound, evaluated once per wait
    attemptNow,  \* local `now` of _obtain_token_by_device_flow
    premature,   \* value of the "attempted too soon" test of the current attempt
    requests,    \* token requests sent by the current call (saturating)
    sleeps,      \* sleeper calls made by the current call (saturating)
    daePosts,    \* requests sent to the device authorization endpoint
    calls,       \* calls made so far
    hasDAE,      \* configuration holds a device_authorization_endpoint
    lastStatus,  \* status code of the last token response received
    interval0,   \* history: flow["interval"] when the current call began
    slowDowns,   \* history: slow_down results received by the current call
    httpDelays,  \* history: seconds the current call has spent in token round trips
    exitAt,      \* history: when the exit condition turned true during a wait, else -1
    answer,      \* history: the interval and expires_in members of the provider's
                 \* device authorization response, until the next call
    other        \* a second _obtain_token_by_device_flow coroutine on the same
                 \* descriptor, started while the first is suspended: its
                 \* position and locals

vars == <<flow, now, pc, call, result, retval, raisedBy, i, n, attemptNow, premature,
          requests, sleeps, daePosts, calls, hasDAE, lastStatus,
          interval0, slowDowns, httpDelays, exitAt, answer, other>>

(***************************************************************************)
(* Bounds of the model.                                                    *)
(***************************************************************************)
StartTime == 100       \* clock reading when the client is constructed
MaxCalls == 1          \* calls made on the client after initiate_device_flow
MaxInterval == 10      \* slow_down is answered only while interval + 5 stays within this
MaxProviderInterval == 2  \* the provider's interval is one of 0..MaxProviderInterval
MaxProviderExpiresIn == 1 \* the provider's expires_in is one of 1..MaxProviderExpiresIn
Horizon == 4           \* device-flow calls begin at most this long before expires_at
MaxHttpDelay == 1      \* the token round trips of one call take this long in total
MaxCount == 2          \* the request and sleeper counters saturate here

(***************************************************************************)
(* Program constants.                                                      *)
(***************************************************************************)
DefaultInterval == 5
DefaultExpiresIn == 1800
SlowDownIncrement == 5
skew == 1
\* Faulty variant of SleepSeconds: `await sleeper(0)`.
SleepSeconds_zero == 1 - 1
SleepSeconds == 1
ServerErrorStatus == 500

(***************************************************************************)
(* Python dicts: functions over the keys present.                          *)
(***************************************************************************)
Empty == [k \in {} |-> 0]
None == "None"
Get(d, k, default) == IF k \in DOMAIN d THEN d[k] ELSE default
Put(d, k, v) == [x \in (DOMAIN d) \cup {k} |-> IF x = k THEN v ELSE d[x]]
Inc(c) == IF c < MaxCount THEN c + 1 ELSE c

(***************************************************************************)
(* Values exchanged with the provider.                                     *)
(***************************************************************************)
\* DEVICE_FLOW_RETRIABLE_ERRORS of AbstractBaseClient
DEVICE_FLOW_RETRIABLE_ERRORS == {"authorization_pending", "slow_down"}

\* Status codes a token response may carry.
Statuses == {200, 400, 500, 503}

\* Bodies a token response may carry; "<html>" is no JSON.
Bodies == {"token", "authorization_pending", "slow_down", "access_denied", "<html>"}

\* The status a provider sends with a body, unless it fails with a 5xx.
UsualStatus(body) == IF body \in {"token", "<html>"} THEN 200 ELSE 400

\* The answers of the token endpoint: a body with its usual status, or any
\* body under a server failure.
Replies ==
    {rp \in [status : Statuses, body : Bodies] :
        rp.status \in {200, 400} => rp.status = UsualStatus(rp.body)}

\* _parse_token_resposne of AbstractBaseClient: json.loads of the body.
Parsable(body) == body # "<html>"
ParseTokenResponse(body) ==
    IF body = "token" THEN [access_token |-> "abc"] ELSE [error |-> body]

\* An interval or expires_in member of the device authorization response:
\* absent, a JSON number, a JSON string of digits, or a JSON string of other text.
RawNumber(vals) ==
    {[t |-> "absent", v |-> 0], [t |-> "text", v |-> 0]}
        \cup [t : {"int", "digits"}, v : vals]

\* No device authorization response is on record.
NoAnswer == [interval |-> [t |-> "none", v |-> 0], expires_in |-> [t |-> "none", v |-> 0]]

\* The scope argument of initiate_device_flow: None, or a list of scopes.
Scopes == {"None", "read write"}

\* int(raw) succeeds on a number and on a string of digits.
IntOk(raw) == raw.t # "text"
\* Faulty variant of IntOr: a string of digits is replaced by the default.
IntOr_textDefault(raw, default) ==
    IF raw.t \in {"absent", "digits"} THEN default ELSE raw.v

\* int(flow.get(key, default))
IntOr(raw, default) == IF raw.t = "absent" THEN default ELSE raw.v

(***************************************************************************)
(* Pure parts of the poller.                                               *)
(***************************************************************************)
\* The default exit_condition, and `lambda flow: True`.
ExitCondition(kind, f, t) ==
    IF kind = "always" THEN TRUE ELSE Get(f, "expires_at", 0) < t

\* The "attempted too soon" test of _obtain_token_by_device_flow.
TooSoon(f, t) ==
    Get(f, "latest_attempt_at", 0) + Get(f, "interval", DefaultInterval) - skew > t

\* Faulty variant of IsServerFailure: `status_code > 500`.
IsServerFailure_strict(status) == status > ServerErrorStatus

\* status_code >= 500: resp.raise_for_status() raises
IsServerFailure(status) == status >= ServerErrorStatus

\* Faulty variant of BackedOff: slow_down takes 5 off the interval.
BackedOff_shrinks(f, r) ==
    IF Get(r, "error", None) = "slow_down"
    THEN Put(f, "interval", Get(f, "interval", DefaultInterval) - SlowDownIncrement)
    ELSE f

\* Faulty variant of BackedOff: the interval is read before the token request
\* is awaited and written back after it.
BackedOff_staleRead(f, r) ==
    IF Get(r, "error", None) = "slow_down"
    THEN Put(f, "interval", interval0 + SlowDownIncrement)
    ELSE f

\* Faulty variant of BackedOff: backs off on every retriable error.
BackedOff_anyRetriable(f, r) ==
    IF Get(r, "error", None) \in DEVICE_FLOW_RETRIABLE_ERRORS
    THEN Put(f, "interval", Get(f, "interval", DefaultInterval) + SlowDownIncrement)
    ELSE f

\* The interval after a result: slow_down adds 5.
BackedOff(f, r) ==
    IF Get(r, "error", None) = "slow_down"
    THEN Put(f, "interval", Get(f, "interval", DefaultInterval) + SlowDownIncrement)
    ELSE f

\* Faulty variant of AfterAttempt: the attempt's start time is not recorded.
AfterAttempt_noStamp(f, r, t) == BackedOff(f, r)

\* The descriptor after an attempt that obtained result r.
AfterAttempt(f, r, t) == Put(BackedOff(f, r), "latest_attempt_at", t)

\* Faulty variant of IsTerminal: only a result without an error ends the loop.
IsTerminal_successOnly(r) == Get(r, "error", None) = None

\* result.get("error") not in self.DEVICE_FLOW_RETRIABLE_ERRORS
IsTerminal(r) == Get(r, "error", None) \notin DEVICE_FLOW_RETRIABLE_ERRORS

\* Faulty variant of WaitRounds: the interval as it was before the attempt's
\* result was applied.
WaitRounds_beforeResult(f) == Get(flow, "interval", DefaultInterval)

\* range(flow.get("interval", 5))
WaitRounds(f) == Get(f, "interval", DefaultInterval)

\* How long one call of the sleeper takes on the clock.
SleeperAdvance(sleeper) == IF sleeper = "real" THEN SleepSeconds ELSE 0

(***************************************************************************)
(* The running coroutine: its position and locals, as one record, so that  *)
(* the code between two awaits composes into a single step.                *)
(***************************************************************************)
Ctl ==
    [pc |-> pc, result |-> result, retval |-> retval, raisedBy |-> raisedBy,
     i |-> i, n |-> n, attemptNow |-> attemptNow, premature |-> premature,
     requests |-> requests, sleeps |-> sleeps]

\* A coroutine that has just been entered.
Fresh ==
    [pc |-> "entered", result |-> Empty, retval |-> Empty, raisedBy |-> "none",
     i |-> 0, n |-> 0, attemptNow |-> 0, premature |-> FALSE,
     requests |-> 0, sleeps |-> 0]

Become(k) ==
    /\ pc' = k.pc
    /\ result' = k.result
    /\ retval' = k.retval
    /\ raisedBy' = k.raisedBy
    /\ i' = k.i
    /\ n' = k.n
    /\ attemptNow' = k.attemptNow
    /\ premature' = k.premature
    /\ requests' = k.requests
    /\ sleeps' = k.sleeps

\* No second coroutine has been started.
NoOther == [Fresh EXCEPT !.pc = "none"]

Raise(k, e) == [k EXCEPT !.pc = "raised", !.raisedBy = e]
Return(k, r) == [k EXCEPT !.pc = "returned", !.retval = r]

\* await self._obtain_token(...): the request goes out, the coroutine is suspended.
SendTokenRequest(k) == [k EXCEPT !.pc = "http", !.requests = Inc(@)]

\* warnings.warn(...) in a module that never imports warnings.
Warn(k) == Raise(k, "NameError")

\* _obtain_token_by_device_flow up to its await, entered at time t on descriptor f.
BeginAttempt(k, f, t) ==
    LET k1 == [k EXCEPT !.attemptNow = t, !.premature = TooSoon(f, t)]
    IN  IF TooSoon(f, t) THEN Warn(k1) ELSE SendTokenRequest(k1)

\* The head of `for i in range(...)` at index idx: the exit check and the
\* sleeper call of that round, or, past the last round, the next attempt.
WaitStep(k, f, t, idx, exitKind) ==
    IF idx < k.n
    THEN IF ExitCondition(exitKind, f, t)
         THEN Return(k, k.result)
         ELSE [k EXCEPT !.pc = "sleep", !.i = idx, !.sleeps = Inc(@)]
    ELSE BeginAttempt(k, f, t)

\* obtain_token_by_device_flow from the result of an attempt to its next await.
AfterResult(k, f, t, exitKind) ==
    IF IsTerminal(k.result)
    THEN Return(k, k.result)
    ELSE WaitStep([k EXCEPT !.n = WaitRounds(f)], f, t, 0, exitKind)

\* Faulty variant of EnterPoll: the sleeper is not checked on entry.
EnterPoll_unchecked(f, t, sleeper) == BeginAttempt(Fresh, f, t)

\* `if not sleeper: raise ValueError`, then the first attempt.
EnterPoll(f, t, sleeper) ==
    IF sleeper = "none" THEN Raise(Fresh, "ValueError") ELSE BeginAttempt(Fresh, f, t)

\* assert isinstance(refresh_token, string_types): string_types is not defined
\* in the module, so the assert raises NameError unless -O strips it.
EnterGrant(kind, stripped) ==
    IF kind = "refresh_token" /\ ~stripped
    THEN Raise(Fresh, "NameError")
    ELSE SendTokenRequest(Fresh)

(***************************************************************************)
(* The state machine.                                                      *)
(***************************************************************************)
SleeperKinds == {"none", "noop", "real"}   \* no sleeper; one that returns at once; asyncio.sleep
ExitKinds == {"default", "always"}         \* the default; lambda flow: True
GrantKinds == {"refresh_token", "password", "client_credentials"}
DeviceKinds == {"loop", "single"}

NoCall == [kind |-> "none", sleeper |-> "none", exit |-> "default", scope |-> "None"]

Init ==
    /\ flow = Empty
    /\ now = StartTime
    /\ call = NoCall
    /\ pc = "constructed"
    /\ result = Empty
    /\ retval = Empty
    /\ raisedBy = "none"
    /\ i = 0
    /\ n = 0
    /\ attemptNow = 0
    /\ premature = FALSE
    /\ requests = 0
    /\ sleeps = 0
    /\ daePosts = 0
    /\ calls = 0
    /\ hasDAE \in BOOLEAN
    /\ lastStatus = 0
    /\ interval0 = 0
    /\ slowDowns = 0
    /\ httpDelays = 0
    /\ exitAt = -1
    /\ answer = NoAnswer
    /\ other = NoOther

\* Every call starts its own history.
NewCall(c) ==
    /\ call' = c
    /\ calls' = calls + 1
    /\ lastStatus' = 0
    /\ interval0' = Get(flow, "interval", DefaultInterval)
    /\ slowDowns' = 0
    /\ httpDelays' = 0
    /\ exitAt' = -1
    /\ answer' = NoAnswer
    /\ other' = NoOther

\* Faulty variant of EnterInitiate: the endpoint is not checked before the post.
EnterInitiate_unchecked(configured) == [Fresh EXCEPT !.pc = "device_auth"]

\* `if not self.configuration.get(DAE): raise ValueError`, then the post.
EnterInitiate(configured) ==
    IF ~configured THEN Raise(Fresh, "ValueError") ELSE [Fresh EXCEPT !.pc = "device_auth"]

\* initiate_device_flow(scope) up to its await.
InitiateDeviceFlow ==
    /\ pc = "constructed"
    /\ \E scope \in Scopes : call' = [NoCall EXCEPT !.kind = "initiate", !.scope = scope]
    /\ Become(EnterInitiate(hasDAE))
    /\ daePosts' = IF pc' = "device_auth" THEN daePosts + 1 ELSE daePosts
    /\ UNCHANGED <<flow, now, calls, hasDAE, lastStatus,
                   interval0, slowDowns, httpDelays, exitAt, answer, other>>

\* Faulty variant of NormalizedFlow: expires_at from the default lifetime.
NormalizedFlow_defaultLifetime(rawInterval, rawExpiresIn, t) ==
    [device_code |-> "dc",
     interval |-> IntOr(rawInterval, DefaultInterval),
     expires_in |-> IntOr(rawExpiresIn, DefaultExpiresIn),
     expires_at |-> t + DefaultExpiresIn]

\* The descriptor initiate_device_flow builds from the provider's JSON at time t.
NormalizedFlow(rawInterval, rawExpiresIn, t) ==
    LET expires_in == IntOr(rawExpiresIn, DefaultExpiresIn)
    IN  [device_code |-> "dc",
         interval |-> IntOr(rawInterval, DefaultInterval),
         expires_in |-> expires_in,
         expires_at |-> t + expires_in]

\* initiate_device_flow from the provider's answer to its return.
DeviceAuthResponds ==
    /\ pc = "device_auth"
    /\ \E rawInterval \in RawNumber(0..MaxProviderInterval),
          rawExpiresIn \in RawNumber(1..MaxProviderExpiresIn) :
          /\ answer' = [interval |-> rawInterval, expires_in |-> rawExpiresIn]
          /\ IF IntOk(rawInterval) /\ IntOk(rawExpiresIn)
             THEN LET f == NormalizedFlow(rawInterval, rawExpiresIn, now)
                  IN  /\ flow' = f
                      /\ Become(Return(Ctl, f))
             ELSE /\ flow' = flow
                  /\ Become(Raise(Ctl, "ValueError"))
    /\ UNCHANGED <<now, call, daePosts, calls, hasDAE, lastStatus,
                   interval0, slowDowns, httpDelays, exitAt, other>>

\* No call is in progress and another may be made.  A polling session is the
\* last use the caller makes of the client: it follows the caller's own
\* attempts and grants, and nothing follows it.
CanCall ==
    /\ pc \in {"returned", "raised"}
    /\ other.pc # "http"
    /\ calls < MaxCalls
    /\ call.kind # "loop"

\* The clock readings at which a device-flow call may be entered: time has
\* passed since the last call ended, and expiry is at most Horizon away.
EntryTimes ==
    {t \in (Get(flow, "expires_at", 0) - Horizon)..(Get(flow, "expires_at", 0) + 1) :
        t > now}
    \cup (IF Get(flow, "expires_at", 0) - now <= Horizon THEN {now} ELSE {})

\* obtain_token_by_device_flow(flow, exit_condition, sleeper) up to its first await.
StartPoll ==
    /\ CanCall
    /\ flow # Empty
    /\ \E t \in EntryTimes, sleeper \in SleeperKinds, exit \in ExitKinds :
          /\ now' = t
          /\ NewCall([NoCall EXCEPT !.kind = "loop", !.sleeper = sleeper, !.exit = exit])
          /\ Become(EnterPoll(flow, t, sleeper))
    /\ UNCHANGED <<flow, daePosts, hasDAE>>

\* _obtain_token_by_device_flow(flow), called on its own, up to its await.
StartAttempt ==
    /\ CanCall
    /\ flow # Empty
    /\ \E t \in EntryTimes :
          /\ now' = t
          /\ NewCall([NoCall EXCEPT !.kind = "single"])
          /\ Become(BeginAttempt(Fresh, flow, t))
    /\ UNCHANGED <<flow, daePosts, hasDAE>>

\* obtain_token_by_refresh_token, obtain_token_by_username_password and
\* obtain_token_for_client up to the await of _obtain_token.  Whether the
\* interpreter strips assert statements (-O) is the deployment's choice.
StartGrant ==
    /\ CanCall
    /\ \E kind \in GrantKinds, stripped \in BOOLEAN :
          /\ NewCall([NoCall EXCEPT !.kind = kind])
          /\ Become(EnterGrant(kind, stripped))
    /\ UNCHANGED <<flow, now, daePosts, hasDAE>>

\* The rest of the call once _obtain_token has produced its result r at time t.
Resume(k, r, f, t) ==
    IF call.kind = "loop"
    THEN AfterResult([k EXCEPT !.result = r], f, t, call.exit)
    ELSE Return(k, r)

\* The token endpoint answers: _obtain_token from its await on, and the caller
\* of _obtain_token up to its next await, its return or its raise.
TokenResponds ==
    /\ pc = "http"
    /\ \E status \in Statuses, body \in Bodies, d \in 0..MaxHttpDelay :
          /\ [status |-> status, body |-> body] \in Replies
          /\ httpDelays + d <= MaxHttpDelay
          /\ (body = "slow_down" /\ call.kind \in DeviceKinds)
                => Get(flow, "interval", DefaultInterval) + SlowDownIncrement <= MaxInterval
          /\ httpDelays' = httpDelays + d
          /\ now' = now + d
          /\ lastStatus' = status
          /\ IF IsServerFailure(status)
             THEN /\ Become(Raise(Ctl, "HTTPError"))
                  /\ UNCHANGED <<flow, slowDowns>>
             ELSE IF ~Parsable(body)
             THEN /\ Become(Raise(Ctl, "JSONDecodeError"))
                  /\ UNCHANGED <<flow, slowDowns>>
             ELSE LET r == ParseTokenResponse(body)
                      f == IF call.kind \in DeviceKinds
                           THEN AfterAttempt(flow, r, attemptNow)
                           ELSE flow
                  IN  /\ flow' = f
                      /\ slowDowns' = IF body = "slow_down" THEN slowDowns + 1
                                                          ELSE slowDowns
                      /\ Become(Resume(Ctl, r, f, now + d))
    /\ UNCHANGED <<call, daePosts, calls, hasDAE, interval0, exitAt, answer, other>>

\* The caller starts a second _obtain_token_by_device_flow(flow) on the same
\* descriptor while the first is suspended in its token request.
StartOverlappingAttempt ==
    /\ call.kind = "single"
    /\ pc = "http"
    /\ other.pc = "none"
    /\ other' = BeginAttempt(Fresh, flow, now)
    /\ UNCHANGED <<flow, now, pc, call, result, retval, raisedBy, i, n, attemptNow, premature,
                   requests, sleeps, daePosts, calls, hasDAE, lastStatus, interval0, slowDowns,
                   httpDelays, exitAt, answer>>

\* The token endpoint answers the second coroutine: _obtain_token from its
\* await on, then lines 104-108.
OtherTokenResponds ==
    /\ other.pc = "http"
    /\ \E status \in Statuses, body \in Bodies, d \in 0..MaxHttpDelay :
          /\ [status |-> status, body |-> body] \in Replies
          /\ httpDelays + d <= MaxHttpDelay
          /\ body = "slow_down"
                => Get(flow, "interval", DefaultInterval) + SlowDownIncrement <= MaxInterval
          /\ httpDelays' = httpDelays + d
          /\ now' = now + d
          /\ IF IsServerFailure(status)
             THEN /\ other' = Raise(other, "HTTPError")
                  /\ UNCHANGED <<flow, slowDowns>>
             ELSE IF ~Parsable(body)
             THEN /\ other' = Raise(other, "JSONDecodeError")
                  /\ UNCHANGED <<flow, slowDowns>>
             ELSE LET r == ParseTokenResponse(body)
                  IN  /\ flow' = AfterAttempt(flow, r, other.attemptNow)
                      /\ slowDowns' = IF body = "slow_down" THEN slowDowns + 1
                                                          ELSE slowDowns
                      /\ other' = Return(other, r)
    /\ UNCHANGED <<pc, call, result, retval, raisedBy, i, n, attemptNow, premature,
                   requests, sleeps, daePosts, calls, hasDAE, lastStatus, interval0,
                   exitAt, answer>>

\* The sleeper returns: the next round of the wait, or the next attempt.
SleeperReturns ==
    /\ pc = "sleep"
    /\ now' = now + SleeperAdvance(call.sleeper)
    /\ Become(WaitStep(Ctl, flow, now', i + 1, call.exit))
    /\ exitAt' = IF /\ exitAt = -1
                    /\ ~ExitCondition(call.exit, flow, now)
                    /\ ExitCondition(call.exit, flow, now')
                 THEN now' ELSE exitAt
    /\ UNCHANGED <<flow, call, daePosts, calls, hasDAE, lastStatus,
                   interval0, slowDowns, httpDelays, answer, other>>

\* While the poller is suspended its caller ends the polling early:
\* flow["expires_at"] = 0.
CallerExpires ==
    /\ pc \in {"http", "sleep"}
    /\ call.kind = "loop"
    /\ call.exit = "default"
    /\ Get(flow, "expires_at", 0) # 0
    /\ flow' = Put(flow, "expires_at", 0)
    /\ exitAt' = IF pc = "sleep" /\ exitAt = -1 /\ ~ExitCondition(call.exit, flow, now)
                 THEN now ELSE exitAt
    /\ UNCHANGED <<now, pc, call, result, retval, raisedBy, i, n, attemptNow, premature,
                   requests, sleeps, daePosts, calls, hasDAE, lastStatus, interval0, slowDowns,
                   httpDelays, answer, other>>

Next ==
    \/ InitiateDeviceFlow
    \/ DeviceAuthResponds
    \/ StartPoll
    \/ StartAttempt
    \/ StartGrant
    \/ TokenResponds
    \/ StartOverlappingAttempt
    \/ OtherTokenResponds
    \/ SleeperReturns
    \/ CallerExpires

Spec == Init /\ [][Next]_vars

\* The transport always answers and the sleeper always returns.
FairSpec ==
    Spec /\ WF_vars(TokenResponds) /\ WF_vars(OtherTokenResponds) /\ WF_vars(SleeperReturns)

(***************************************************************************)
(* Properties.                                                             *)
(***************************************************************************)
Ended == pc \in {"returned", "raised"}
ErrorOf(r) == Get(r, "error", None)

\* C1: in the polling loop, an attempt whose result carries no error or an
\* error other than authorization_pending and slow_down makes the loop return
\* that very result in the same step: no request is sent and the sleeper is
\* not called after it.
C1_TerminalResultReturnsAtOnce ==
    [][(/\ pc = "http"
        /\ call.kind = "loop"
        /\ pc' # "raised"
        /\ result' # result
        /\ ErrorOf(result') \notin {"authorization_pending", "slow_down"})
       => (/\ pc' = "returned"
           /\ retval' = result'
           /\ requests' = requests
           /\ sleeps' = sleeps)]_vars

\* C1 witness: the loop has returned a non-retriable error obtained by its
\* second attempt.
C1_Witness ==
    /\ pc = "returned"
    /\ call.kind = "loop"
    /\ ErrorOf(retval) = "access_denied"
    /\ requests = 2
    /\ sleeps >= 1

\* C2: throughout a polling session, and so when it ends, the descriptor's
\* interval is its value at the start of the session plus 5 for every
\* slow_down the transport has returned in the session.
C2_IntervalGrowsFivePerSlowDown ==
    call.kind = "loop" => Get(flow, "interval", DefaultInterval) = interval0 + 5 * slowDowns

\* C2 witness: a session has ended after the transport returned slow_down
\* twice, and the interval is ten more than on entry.
C2_Witness ==
    /\ pc = "returned"
    /\ call.kind = "loop"
    /\ slowDowns = 2
    /\ requests = 2
    /\ flow["interval"] = interval0 + 10

\* C3 (as claimed): once the exit condition holds at any point of the wait,
\* the last round of it included, the loop sends no further token request.
C3_NoAttemptOnceExitHolds ==
    [][(/\ pc = "sleep"
        /\ call.kind = "loop"
        /\ ExitCondition(call.exit, flow', now'))
       => pc' # "http"]_vars

\* C4 (as claimed): when the exit condition turns true at time T during the
\* wait, the loop returns within one second of T.
C4_ReturnsWithinOneSecond ==
    (/\ pc = "returned"
     /\ call.kind = "loop"
     /\ call.sleeper = "real"
     /\ exitAt # -1)
    => now - exitAt <= 1

\* C5 (as claimed): with an exit condition that is always true the loop sends
\* one token request at most and never calls the sleeper, whatever the
\* descriptor and the provider's answers.
C5_AlwaysTrueExitMakesOneAttempt ==
    (call.kind = "loop" /\ call.exit = "always")
    => (requests <= 1 /\ sleeps = 0)

\* C6: with the default exit condition, an interval of at least 1 on entry and
\* a sleeper that takes a second per call, a polling loop in progress
\* eventually ends, whatever the provider answers: control is back with the
\* caller, by a return or by an exception of the last attempt.
C6_PollingEnds ==
    (/\ call.kind = "loop"
     /\ call.exit = "default"
     /\ call.sleeper = "real"
     /\ interval0 >= 1
     /\ pc \in {"http", "sleep"})
    ~> Ended

\* C6 witness: such a loop is waiting after the provider answered slow_down,
\* with the descriptor not yet expired.
C6_Witness ==
    /\ call.kind = "loop"
    /\ call.exit = "default"
    /\ call.sleeper = "real"
    /\ interval0 >= 1
    /\ pc = "sleep"
    /\ ErrorOf(result) = "slow_down"
    /\ flow["expires_at"] >= now

\* C7: a token response with status 500 or more makes the call raise the
\* transport's fault in the same step: nothing is returned, and the polling
\* loop sends no further request.
C7_ServerFailureRaises ==
    [][(pc = "http" /\ lastStatus' >= 500)
       => (/\ pc' = "raised"
           /\ raisedBy' = "HTTPError"
           /\ retval' = Empty
           /\ requests' = requests
           /\ sleeps' = sleeps)]_vars

\* C7 witness: the second attempt of a polling loop met status 500 and the
\* loop raised.
C7_Witness ==
    /\ pc = "raised"
    /\ raisedBy = "HTTPError"
    /\ call.kind = "loop"
    /\ lastStatus = 500
    /\ requests = 2

\* C8 (as claimed): a premature attempt is only warned about and proceeds; it
\* does not fail.
C8_PrematureAttemptProceeds ==
    (call.kind \in DeviceKinds /\ premature) => pc # "raised"

\* C9 (as claimed): a simple grant call that has ended has sent exactly one
\* token request.
C9_GrantSendsOneRequest ==
    (call.kind \in GrantKinds /\ Ended) => requests = 1

\* C10: entering the polling loop without a sleeper raises ValueError in the
\* entering step: no token request is sent, the sleeper is not called and the
\* descriptor is as it was.
C10_NoSleeperFailsFirst ==
    [][(call'.kind = "loop" /\ call'.sleeper = "none" /\ calls' = calls + 1)
       => (/\ pc' = "raised"
           /\ raisedBy' = "ValueError"
           /\ requests' = 0
           /\ sleeps' = 0
           /\ flow' = flow)]_vars

\* C10 witness: a polling call on an existing descriptor without a sleeper
\* has raised.
C10_Witness ==
    /\ pc = "raised"
    /\ raisedBy = "ValueError"
    /\ call.kind = "loop"
    /\ call.sleeper = "none"
    /\ flow # Empty
    /\ requests = 0

\* The value int() gives for a member of the provider's response.
Denoted(raw, default) ==
    CASE raw.t = "absent" -> default
      [] raw.t \in {"int", "digits"} -> raw.v

InitiateReturned == call.kind = "initiate" /\ pc = "returned"

\* C11: without a device authorization endpoint, the step that calls
\* initiate_device_flow ends with ValueError raised, no device authorization
\* post and no token request sent, and no descriptor produced.
C11_NoEndpointFailsAtOnce ==
    [][(pc = "constructed" /\ ~hasDAE /\ call'.kind = "initiate")
        => /\ pc' = "raised"
           /\ raisedBy' = "ValueError"
           /\ daePosts' = daePosts
           /\ requests' = requests
           /\ flow' = Empty
           /\ retval' = Empty]_vars

\* C11 witness: initiate_device_flow has raised ValueError on a client
\* without the endpoint.
C11_Witness ==
    /\ ~hasDAE
    /\ call.kind = "initiate"
    /\ pc = "raised"
    /\ raisedBy = "ValueError"
    /\ daePosts = 0

\* C12 (amended): a returned descriptor has interval 5 when the provider
\* omitted it, and otherwise the integer the provider's number or string of
\* digits denotes; a string that is not a number makes the call raise
\* ValueError and return no descriptor.
C12_IntervalIsParsed ==
    /\ InitiateReturned
        => flow["interval"] = Denoted(answer.interval, 5)
    /\ (call.kind = "initiate" /\ answer.interval.t = "text")
        => (pc = "raised" /\ raisedBy = "ValueError" /\ retval = Empty /\ flow = Empty)

\* C12 witness: the provider gave interval as a string of digits and the
\* returned descriptor holds the number it denotes.
C12_Witness ==
    /\ InitiateReturned
    /\ answer.interval.t = "digits"
    /\ answer.interval.v = 2
    /\ flow["interval"] = 2

\* C12 (as claimed): a returned descriptor has interval 5 whenever the
\* provider omitted interval or gave it as text, and the provider's integer
\* otherwise.
C12_AsClaimed_TextGivesFive ==
    InitiateReturned
        => flow["interval"] = IF answer.interval.t \in {"absent", "text", "digits"}
                              THEN 5
                              ELSE answer.interval.v

\* C13: a returned descriptor has expires_in equal to the provider's value,
\* or 1800 when omitted, and expires_at equal to the clock at the return plus
\* that expires_in, for every scope argument.
C13_ExpiryFromProvider ==
    InitiateReturned
        => /\ call.scope \in Scopes
           /\ flow["expires_in"] = Denoted(answer.expires_in, 1800)
           /\ flow["expires_at"] = now + flow["expires_in"]
           /\ retval = flow

\* C13 witness: a call with a scope list has returned a descriptor with the
\* provider's lifetime.
C13_Witness ==
    /\ InitiateReturned
    /\ call.scope = "read write"
    /\ answer.expires_in.t = "int"
    /\ flow["expires_in"] = 1
    /\ flow["expires_at"] = now + 1

\* C14: no step of a polling session (an attempt's result, a wait round,
\* an exit check, the return, a change the caller makes to the descriptor
\* meanwhile) lowers the descriptor's interval.
C14_IntervalNeverLowered ==
    [][(call.kind = "loop" /\ call'.kind = "loop")
        => Get(flow', "interval", 5) >= Get(flow, "interval", 5)]_vars

\* C14 witness: a polling session has ended after a slow_down and a wait,
\* with a larger interval than it began with.
C14_Witness ==
    /\ call.kind = "loop"
    /\ pc = "returned"
    /\ slowDowns >= 1
    /\ sleeps >= 1
    /\ flow["interval"] > interval0

\* C15 (as claimed): when a call that made poll attempts is over, whether
\* its last attempt ended in a result, a transport fault or an unparsable
\* response, the descriptor's latest_attempt_at is the clock value that
\* attempt read at its start.
C15_EveryAttemptStampsDescriptor ==
    (call.kind \in DeviceKinds /\ Ended /\ requests >= 1 /\ raisedBy # "NameError")
        => Get(flow, "latest_attempt_at", -1) = attemptNow

\* C16 (as claimed): a descriptor produced by initiate_device_flow, before
\* and while the poller drives it, has an interval of at least 1.
C16_IntervalAtLeastOne ==
    flow # Empty => Get(flow, "interval", 5) >= 1

\* Token requests of device-flow attempts sent and not yet answered.
InFlight ==
    (IF pc = "http" THEN 1 ELSE 0) + (IF other.pc = "http" THEN 1 ELSE 0)

\* A step of a polling session in which the loop begins another attempt:
\* from a wait, or straight from the previous attempt's result.
NextAttemptBegins ==
    /\ call.kind = "loop"
    /\ pc \in {"http", "sleep"}
    /\ pc' \in {"http", "raised"}
    /\ raisedBy' \in {"none", "NameError"}
    /\ flow'["expires_at"] = flow["expires_at"]

\* C17: in a polling session at most one token request is in flight, and
\* when the loop begins its next attempt the previous attempt's result is
\* already in the descriptor: latest_attempt_at is that attempt's start time
\* and the interval holds 5 for every slow_down so far; a step that receives
\* slow_down adds the 5 no later than it records the attempt's time.
C17_AttemptsAreSequential ==
    /\ [](call.kind = "loop" => InFlight <= 1)
    /\ [][NextAttemptBegins
            => /\ Get(flow', "latest_attempt_at", -1) = attemptNow
               /\ flow'["interval"] = interval0 + 5 * slowDowns']_vars
    /\ [][(call.kind = "loop" /\ slowDowns' = slowDowns + 1)
            => /\ flow'["interval"] = Get(flow, "interval", 5) + 5
               /\ Get(flow', "latest_attempt_at", -1) = attemptNow]_vars

\* C17 witness: a second attempt of a polling session is in flight after a
\* slow_down and a wait.
C17_Witness ==
    /\ call.kind = "loop"
    /\ pc = "http"
    /\ requests = 2
    /\ sleeps >= 1
    /\ slowDowns = 1
    /\ flow["latest_attempt_at"] < attemptNow

\* C18: in a polling session the loop goes from a wait to its next attempt
\* only after exactly interval sleeper calls, interval being the descriptor's
\* current value with every slow_down's 5 in it; and with a sleeper that
\* takes a second per call no attempt after the first is premature.
C18_WaitCoversInterval ==
    /\ [][(call.kind = "loop" /\ pc = "sleep" /\ pc' \in {"http", "raised"})
            => /\ i + 1 = flow["interval"]
               /\ flow["interval"] = interval0 + 5 * slowDowns
               /\ call.sleeper = "real"
                    => /\ ~premature'
                       /\ flow["latest_attempt_at"] + flow["interval"] - 1 <= attemptNow']_vars
    /\ []((call.kind = "loop" /\ call.sleeper = "real" /\ premature) => requests = 0)

\* C18 witness: with a one-second sleeper, a second attempt is in flight
\* after a slow_down and a wait of the raised interval.
C18_Witness ==
    /\ call.kind = "loop"
    /\ call.sleeper = "real"
    /\ pc = "http"
    /\ requests = 2
    /\ slowDowns = 1
    /\ ~premature
    /\ attemptNow >= flow["latest_attempt_at"] + interval0 + 5

\* C19 (as claimed): a polling call with a sleeper that is over has sent at
\* least one token request and has set the descriptor's latest_attempt_at to
\* the time of its last attempt, also when the exit condition held on entry.
C19_OneAttemptAlwaysMade ==
    (call.kind = "loop" /\ call.sleeper # "none" /\ Ended)
        => /\ requests >= 1
           /\ Get(flow, "latest_attempt_at", -1) = attemptNow

\* C20: after two overlapping attempts on one descriptor have both
\* returned, the interval has grown by exactly 5 for each of them that
\* received slow_down.
C20_NoBackoffLost ==
    (call.kind = "single" /\ pc = "returned" /\ other.pc = "returned")
        => flow["interval"] = interval0 + 5 * slowDowns

\* C20 witness: two overlapping attempts have both returned slow_down and
\* the interval is 10 larger.
C20_Witness ==
    /\ call.kind = "single"
    /\ pc = "returned"
    /\ other.pc = "returned"
    /\ ErrorOf(retval) = "slow_down"
    /\ ErrorOf(other.retval) = "slow_down"
    /\ slowDowns = 2
    /\ flow["interval"] = interval0 + 10

====
